---------------------------- MODULE Spec2Model ----------------------------
(***************************************************************************)
(* A model of the metric reconciliation and scoring pipeline:              *)
(*   build_long_tables.py       extract_month_series, pick_scalar,         *)
(*                              build_openrank_long, build_ops_long        *)
(*   build_health_and_alerts.py percentile_rank, build_end_snapshot,       *)
(*                              compute_health_score, build_alerts         *)
(*                                                                         *)
(* Every component is a pure function, so each has a specification of its  *)
(* own: Init draws the function's inputs from bounded sets and one action  *)
(* per function applies it.                                                *)
(*                                                                         *)
(* Representation.                                                         *)
(*   - A Python str is a sequence of one-character strings, so that        *)
(*     len(k), k[4] and k[:7] are computed as the code computes them.      *)
(*   - A parsed JSON value is a record tagged by t: "null", "bool", "num", *)
(*     "nan" (the float NaN), "big" (an int too large for float()),        *)
(*     "str", "dict" (kv: its items in order, keys distinct) and "list".   *)
(*   - A float is [nan, v]: NaN, or the number v.                          *)
(*   - A percentile rank is an exact fraction [nan, num, den].             *)
(***************************************************************************)
EXTENDS Integers, Sequences, FiniteSets, TLC

VARIABLES
    pc,             \* position of the run being modelled
    obj,            \* extract_month_series: its argument
    series,         \* extract_month_series: what it returned or raised
    metrics_dir,    \* the repositories and their parsed metric files
    openrank_long,  \* openrank_long.csv  (table, or the exception raised)
    issue_ops,      \* issue_ops_long.csv (table, or the exception raised)
    pr_ops,         \* pr_ops_long.csv    (table, or the exception raised)
    snap,           \* build_end_snapshot's result
    health_end,     \* compute_health_score's result
    alerts_end,     \* build_alerts' result
    col,            \* percentile_rank: its argument s
    ranked          \* percentile_rank: its results, by higher_is_better

vars == <<pc, obj, series, metrics_dir, openrank_long, issue_ops, pr_ops,
          snap, health_end, alerts_end, col, ranked>>

(***************************************************************************)
(* Bounds of the model.                                                    *)
(***************************************************************************)
MaxNum == 2         \* JSON numbers are 0..MaxNum
MaxEntries == 2     \* items of a raw mapping, entries of a raw sequence
MaxRows == 4        \* values of a column handed to percentile_rank
MaxScoreVal == 1    \* snapshot values of the freely chosen columns

Idle == "idle"      \* value of a variable the specification does not use

(***************************************************************************)
(* Strings.                                                                *)
(***************************************************************************)
Digits == {"0", "1", "2", "3", "4", "5", "6", "7", "8", "9"}

\* Characters in code point order ('-' < '/' < digits < letters).
Alphabet == <<"-", "/", "0", "1", "2", "3", "4", "5", "6", "7", "8", "9",
              "a", "b", "c", "d", "e", "f", "g", "h", "i", "j", "k", "l",
              "m", "n", "o", "p", "q", "r", "s", "t", "u", "v", "w", "x",
              "y", "z">>

CharCode(c) == CHOOSE i \in 1..Len(Alphabet) : Alphabet[i] = c

\* Python's a < b on str: lexicographic by code point.
RECURSIVE StrLess(_, _)
StrLess(a, b) ==
    IF b = << >> THEN FALSE
    ELSE IF a = << >> THEN TRUE
    ELSE IF Head(a) # Head(b) THEN CharCode(Head(a)) < CharCode(Head(b))
    ELSE StrLess(Tail(a), Tail(b))

K_data == <<"d", "a", "t", "a">>
K_month == <<"m", "o", "n", "t", "h">>
K_date == <<"d", "a", "t", "e">>
K_time == <<"t", "i", "m", "e">>
K_key == <<"k", "e", "y">>
K_value == <<"v", "a", "l", "u", "e">>
K_val == <<"v", "a", "l">>
K_median == <<"m", "e", "d", "i", "a", "n">>
K_p50 == <<"p", "5", "0">>
K_mean == <<"m", "e", "a", "n">>
K_avg == <<"a", "v", "g">>
K_max == <<"m", "a", "x">>

(***************************************************************************)
(* Parsed JSON values and floats.                                          *)
(***************************************************************************)
JNull == [t |-> "null"]
JNaN == [t |-> "nan"]
JBig == [t |-> "big"]
JBool(b) == [t |-> "bool", b |-> b]
JNum(n) == [t |-> "num", n |-> n]
JStr(s) == [t |-> "str", s |-> s]
JDict(kv) == [t |-> "dict", kv |-> kv]
JList(xs) == [t |-> "list", xs |-> xs]
KV(k, v) == [k |-> k, v |-> v]

NaN == [nan |-> TRUE, v |-> 0]
F(n) == [nan |-> FALSE, v |-> n]

None == JNull

\* key in d
Has(d, key) == \E i \in 1..Len(d.kv) : d.kv[i].k = key

\* d[key], for a key of d
At(d, key) == d.kv[CHOOSE i \in 1..Len(d.kv) : d.kv[i].k = key].v

\* d.get(key, default)
Get(d, key, default) == IF Has(d, key) THEN At(d, key) ELSE default

\* bool(v)
Truthy(v) ==
    CASE v.t = "null" -> FALSE
      [] v.t = "bool" -> v.b
      [] v.t = "num" -> v.n # 0
      [] v.t = "str" -> v.s # << >>
      [] v.t = "dict" -> v.kv # << >>
      [] v.t = "list" -> v.xs # << >>
      [] OTHER -> TRUE

\* a or b
PyOr(a, b) == IF Truthy(a) THEN a ELSE b

\* isinstance(v, (int, float)): bool is a subclass of int
IsIntOrFloat(v) == v.t \in {"num", "nan", "big", "bool"}

\* float(v) for an int or float v: [exc, val]
ToFloat(v) ==
    CASE v.t = "num" -> [exc |-> "none", val |-> F(v.n)]
      [] v.t = "bool" -> [exc |-> "none", val |-> F(IF v.b THEN 1 ELSE 0)]
      [] v.t = "nan" -> [exc |-> "none", val |-> NaN]
      [] v.t = "big" -> [exc |-> "OverflowError", val |-> NaN]

(***************************************************************************)
(* pick_scalar                                                             *)
(***************************************************************************)
StatKeys == <<K_median, K_p50, K_mean, K_avg, K_value>>

RECURSIVE PickFromStat(_, _)
PickFromStat(v, i) ==
    IF i > Len(StatKeys) THEN [exc |-> "none", val |-> NaN]
    ELSE IF Has(v, StatKeys[i]) /\ IsIntOrFloat(At(v, StatKeys[i]))
         THEN ToFloat(At(v, StatKeys[i]))
         ELSE PickFromStat(v, i + 1)

pick_scalar(v) ==
    IF IsIntOrFloat(v) /\ v.t # "nan" THEN ToFloat(v)
    ELSE IF v.t = "dict" THEN PickFromStat(v, 1)
    ELSE [exc |-> "none", val |-> NaN]

(***************************************************************************)
(* extract_month_series                                                    *)
(***************************************************************************)
EmptySeries == [m \in {} |-> NaN]

\* out[k] = val
Put(out, k, val) ==
    [m \in DOMAIN out \cup {k} |-> IF m = k THEN val ELSE out[m]]

\* isinstance(k, str) and len(k) >= 7 and k[4] == "-"
MonthTest(k) == k.t = "str" /\ Len(k.s) >= 7 /\ k.s[5] = "-"

\* k[:7]
Prefix7(s) == SubSeq(s, 1, 7)

RECURSIVE DictLoop(_, _, _)
DictLoop(kv, i, out) ==
    IF i > Len(kv) THEN [exc |-> "none", out |-> out]
    ELSE IF MonthTest(JStr(kv[i].k))
         THEN LET p == pick_scalar(kv[i].v)
              IN  IF p.exc # "none" THEN [exc |-> p.exc, out |-> EmptySeries]
                  ELSE DictLoop(kv, i + 1, Put(out, Prefix7(kv[i].k), p.val))
         ELSE DictLoop(kv, i + 1, out)

\* it.get("month") or it.get("date") or it.get("time") or it.get("key")
MonthOf(it) ==
    PyOr(PyOr(PyOr(Get(it, K_month, None), Get(it, K_date, None)),
              Get(it, K_time, None)),
         Get(it, K_key, None))

\* Mutant: it.get("value") or it.get("val") or it.get("data")
ValueOf_OrChain(it) ==
    PyOr(PyOr(Get(it, K_value, None), Get(it, K_val, None)),
         Get(it, K_data, None))

\* it.get("value", it.get("val", it.get("data")))
ValueOf(it) ==
    Get(it, K_value, Get(it, K_val, Get(it, K_data, None)))

RECURSIVE ListLoop(_, _, _)
ListLoop(xs, i, out) ==
    IF i > Len(xs) THEN [exc |-> "none", out |-> out]
    ELSE IF xs[i].t # "dict" THEN ListLoop(xs, i + 1, out)
    ELSE IF MonthTest(MonthOf(xs[i]))
         THEN LET p == pick_scalar(ValueOf(xs[i]))
              IN  IF p.exc # "none" THEN [exc |-> p.exc, out |-> EmptySeries]
                  ELSE ListLoop(xs, i + 1,
                                Put(out, Prefix7(MonthOf(xs[i]).s), p.val))
         ELSE ListLoop(xs, i + 1, out)

\* case 2: {"data": ...} around a dict or a list
Unwrap(o) ==
    IF o.t = "dict" /\ Has(o, K_data) /\ At(o, K_data).t \in {"dict", "list"}
    THEN At(o, K_data)
    ELSE o

extract_month_series(o) ==
    IF o.t = "null" THEN [exc |-> "none", out |-> EmptySeries]
    ELSE LET u == Unwrap(o)
         IN  IF u.t = "dict" THEN DictLoop(u.kv, 1, EmptySeries)
             ELSE IF u.t = "list" THEN ListLoop(u.xs, 1, EmptySeries)
             ELSE [exc |-> "none", out |-> EmptySeries]

(***************************************************************************)
(* Raw documents: what load_json hands to extract_month_series.            *)
(***************************************************************************)
M1 == <<"2", "0", "2", "1", "-", "0", "3">>
M2 == <<"2", "0", "2", "1", "-", "0", "4">>
M1Day == M1 \o <<"-", "1", "5">>                       \* "2021-03-15"
YearOnly == <<"2", "0", "2", "1">>                     \* "2021"
Slashed == <<"2", "0", "2", "1", "/", "0", "3">>       \* "2021/03"
Worded == <<"a", "b", "c", "d", "-", "x", "y">>        \* "abcd-xy"

KeyPool == {M1, M2, M1Day, YearOnly, Slashed, Worded}

\* \d{4}-\d{2}
IsYYYYMM(k) ==
    /\ Len(k) = 7
    /\ k[5] = "-"
    /\ \A i \in {1, 2, 3, 4, 6, 7} : k[i] \in Digits

MonthKeys == {k \in KeyPool : IsYYYYMM(k)}

Nums == 0..MaxNum

StatMean(x) == JDict(<<KV(K_mean, JNum(x))>>)

\* Values that are no plain number: null, an int beyond float range, a bool
\* and statistics objects with several, non-numeric or NaN fields.
OddValues ==
    { JNull, JBig, JBool(TRUE),
      JDict(<<KV(K_median, JNum(1)), KV(K_mean, JNum(2))>>),
      JDict(<<KV(K_mean, JStr(<<"x">>)), KV(K_avg, JNum(2))>>),
      JDict(<<KV(K_median, JNaN), KV(K_mean, JNum(2))>>),
      JDict(<<KV(K_max, JNum(1))>>) }

\* The items a raw mapping is made of.
FlatEntries ==
    {KV(k, JNum(x)) : k \in KeyPool, x \in Nums}
    \cup {KV(k, StatMean(x)) : k \in MonthKeys, x \in Nums}
    \cup {KV(M1, v) : v \in OddValues}

\* Sequences of at most n elements of S.
RECURSIVE SeqsUpTo(_, _)
SeqsUpTo(S, n) ==
    IF n = 0 THEN {<< >>}
    ELSE LET shorter == SeqsUpTo(S, n - 1)
         IN  shorter \cup {Append(q, e) : q \in shorter, e \in S}

DistinctKeys(kv) ==
    \A i, j \in 1..Len(kv) : kv[i].k = kv[j].k => i = j

\* shape 1 and 4: a mapping of at most n source keys to scalars or
\* statistics objects
FlatDocs(n) ==
    {JDict(kv) : kv \in {q \in SeqsUpTo(FlatEntries, n) : DistinctKeys(q)}}

MonthParts ==
    {<<KV(K_month, JStr(k))>> : k \in {M1, M2, M1Day, YearOnly, Worded}} \cup
    { <<KV(K_date, JStr(M2))>>,
      <<KV(K_month, JNull), KV(K_time, JStr(M1))>>,
      <<KV(K_month, JStr(<< >>)), KV(K_key, JStr(M2))>>,
      <<KV(K_month, JNum(1))>>,
      << >> }

ValueParts ==
    {<<KV(K_value, JNum(x))>> : x \in Nums} \cup
    { <<KV(K_val, JNum(1))>>,
      <<KV(K_value, JNull), KV(K_val, JNum(2))>>,
      <<KV(K_val, JNull), KV(K_data, JNum(1))>>,
      <<KV(K_value, StatMean(1))>>,
      <<KV(K_value, JBig)>>,
      << >> }

\* The entries a raw sequence is made of; one is no mapping.
ListEntries ==
    {JDict(mp \o <<KV(K_value, JNum(1))>>) : mp \in MonthParts}
    \cup {JDict(<<KV(K_month, JStr(m))>> \o vp) : m \in MonthKeys,
                                                  vp \in ValueParts}
    \cup {JNum(1)}

\* shape 3: a sequence of at most n entries
ListDocs(n) == {JList(xs) : xs \in SeqsUpTo(ListEntries, n)}

\* shape 2: {"data": ...}, also around something that is no dict or list,
\* and beside another key
WrappedDocs ==
    {JDict(<<KV(K_data, d)>>) : d \in FlatDocs(1) \cup ListDocs(1) \cup {JNum(1)}}
    \cup
    {JDict(<<KV(M2, JNum(1)), KV(K_data, d)>>) : d \in FlatDocs(0) \cup {JNum(2)}}

RawDocs(n) ==
    {None, JNum(1), JStr(M1)} \cup FlatDocs(n) \cup ListDocs(n) \cup WrappedDocs

(***************************************************************************)
(* Specification of the Series Extractor.                                  *)
(***************************************************************************)
Pending == [exc |-> "pending", out |-> EmptySeries]

ExtractVars == <<obj, series>>
LongVars == <<metrics_dir, openrank_long, issue_ops, pr_ops>>
ScoreVars == <<snap, health_end, alerts_end>>
RankVars == <<col, ranked>>

InitExtract ==
    /\ pc = "start"
    /\ obj \in RawDocs(MaxEntries)
    /\ series = Pending
    /\ metrics_dir = Idle /\ openrank_long = Idle /\ issue_ops = Idle
    /\ pr_ops = Idle /\ snap = Idle /\ health_end = Idle
    /\ alerts_end = Idle /\ col = Idle /\ ranked = Idle

Extract ==
    /\ pc = "start"
    /\ series' = extract_month_series(obj)
    /\ pc' = "done"
    /\ UNCHANGED <<obj, LongVars, ScoreVars, RankVars>>

NextExtract == Extract

SpecExtract == InitExtract /\ [][NextExtract]_vars

(***************************************************************************)
(* Claims about the Series Extractor (checked under SpecExtract).          *)
(***************************************************************************)
FlatShape(m, x) == JDict(<<KV(m, JNum(x))>>)
WrappedShape(m, x) == JDict(<<KV(K_data, FlatShape(m, x))>>)
EventShape(m, x) ==
    JList(<<JDict(<<KV(K_month, JStr(m)), KV(K_value, JNum(x))>>)>>)
StatShape(m, x) == JDict(<<KV(m, StatMean(x))>>)

FourShapes(m, x) ==
    {FlatShape(m, x), WrappedShape(m, x), EventShape(m, x), StatShape(m, x)}

\* C1: for every month key m of form YYYY-MM and every number x, the flat
\* mapping {m: x}, the wrapped mapping {"data": {m: x}}, the event sequence
\* [{"month": m, "value": x}] and the statistics-object mapping
\* {m: {"mean": x}} all yield the series {m: float(x)}.
C1_FourShapesAgree ==
    \A m \in MonthKeys, x \in Nums :
        (pc = "done" /\ obj \in FourShapes(m, x)) =>
            series = [exc |-> "none", out |-> [k \in {m} |-> F(x)]]

\* C1's case: the event sequence with the falsy number 0 has been extracted.
C1_Witness ==
    /\ pc = "done"
    /\ obj = EventShape(M2, 0)
    /\ series.exc = "none"
    /\ DOMAIN series.out = {M2}

\* C2: every key of the returned series matches \d{4}-\d{2}; a source key
\* whose first 7 characters do not match is dropped.
C2_KeysMatchPattern ==
    pc = "done" => \A k \in DOMAIN series.out : IsYYYYMM(k)

\* The first non-null of the candidate value fields value, val, data.
FirstNonNull(it) ==
    IF Get(it, K_value, None) # None THEN Get(it, K_value, None)
    ELSE IF Get(it, K_val, None) # None THEN Get(it, K_val, None)
    ELSE Get(it, K_data, None)

ValidEntry(it) ==
    it.t = "dict" /\ MonthTest(MonthOf(it)) /\ IsYYYYMM(Prefix7(MonthOf(it).s))

\* C10: for every entry of an event sequence with a valid month identifier,
\* the month's value is the scalar picked from the first non-null of the
\* fields value, val, data (the last entry of a month decides its value).
C10_FirstNonNullValue ==
    (pc = "done" /\ obj.t = "list" /\ series.exc = "none") =>
        \A i \in 1..Len(obj.xs) :
            (/\ ValidEntry(obj.xs[i])
             /\ \A j \in (i + 1)..Len(obj.xs) :
                    ValidEntry(obj.xs[j]) =>
                        Prefix7(MonthOf(obj.xs[j]).s)
                            # Prefix7(MonthOf(obj.xs[i]).s))
            => series.out[Prefix7(MonthOf(obj.xs[i]).s)]
                   = pick_scalar(FirstNonNull(obj.xs[i])).val

(***************************************************************************)
(* pandas: DataFrame(rows) and sort_values(by).reset_index(drop=True).     *)
(* A table is [exc, columns, rows]; a row is a function of column names.   *)
(***************************************************************************)
NotBuilt == [exc |-> "pending", columns |-> {}, rows |-> << >>]
Raise(e) == [exc |-> e, columns |-> {}, rows |-> << >>]

\* The columns of DataFrame(rows) are the keys of the row dicts: none for [].
DataFrame(rows) ==
    [columns |-> UNION {DOMAIN rows[i] : i \in 1..Len(rows)}, rows |-> rows]

\* Lexicographic comparison of two rows on the string columns by.
RECURSIVE RowLess(_, _, _)
RowLess(a, b, by) ==
    IF by = << >> THEN FALSE
    ELSE IF a[Head(by)] # b[Head(by)] THEN StrLess(a[Head(by)], b[Head(by)])
    ELSE RowLess(a, b, Tail(by))

\* Insert row r into the sorted sequence q, after the rows not greater.
RECURSIVE Insert(_, _, _)
Insert(q, r, by) ==
    IF q = << >> THEN <<r>>
    ELSE IF RowLess(r, Head(q), by) THEN <<r>> \o q
    ELSE <<Head(q)>> \o Insert(Tail(q), r, by)

RECURSIVE SortRows(_, _)
SortRows(rows, by) ==
    IF rows = << >> THEN << >>
    ELSE Insert(SortRows(SubSeq(rows, 1, Len(rows) - 1), by),
                rows[Len(rows)], by)

Range(q) == {q[i] : i \in 1..Len(q)}

\* df.sort_values(by).reset_index(drop=True): KeyError for a missing column
SortValues(df, by) ==
    IF Range(by) \subseteq df.columns
    THEN [exc |-> "none", columns |-> df.columns,
          rows |-> SortRows(df.rows, by)]
    ELSE Raise("KeyError")

\* sorted(months)
RECURSIVE Sorted(_)
Sorted(S) ==
    IF S = {} THEN << >>
    ELSE LET least == CHOOSE m \in S : \A o \in S \ {m} : StrLess(m, o)
         IN  <<least>> \o Sorted(S \ {least})

(***************************************************************************)
(* build_openrank_long and build_ops_long.                                 *)
(* metrics_dir is the sequence of repositories repo_iter yields, each      *)
(* [org, repo, files], files mapping a column to what load_json returns    *)
(* for the column's file (None for a missing or malformed file).           *)
(***************************************************************************)
IssueFiles == <<"issues_new", "issues_closed", "issue_response_time",
                "issue_resolution_duration">>
PrFiles == <<"change_requests", "change_request_response_time",
             "change_request_resolution_duration">>
OpenrankFiles == <<"openrank">>

FilesOf(kind) == IF kind = "issue" THEN IssueFiles ELSE PrFiles

RepoFull(r) == r.org \o <<"/">> \o r.repo

IdCols(r, month) ==
    [repo_full |-> RepoFull(r), org |-> r.org, repo |-> r.repo,
     month |-> month]

\* series_map: col -> extract_month_series(load_json(repo_dir / fn))
SeriesMap(r, files) ==
    [c \in Range(files) |-> extract_month_series(r.files[c])]

\* The exception of the first file whose extraction raises, else "none".
RECURSIVE FirstExc(_, _, _)
FirstExc(sm, files, i) ==
    IF i > Len(files) THEN "none"
    ELSE IF sm[files[i]].exc # "none" THEN sm[files[i]].exc
    ELSE FirstExc(sm, files, i + 1)

\* Mutant: only the months every column covers
UnionMonths_Intersect(sm) ==
    {m \in UNION {DOMAIN sm[c].out : c \in DOMAIN sm} :
        \A c \in DOMAIN sm : m \in DOMAIN sm[c].out}

\* months |= set(s.keys()), over the columns
UnionMonths(sm) == UNION {DOMAIN sm[c].out : c \in DOMAIN sm}

\* row[col] = series_map[col].get(month, np.nan)
OpsRow(r, files, sm, month) ==
    IdCols(r, month) @@
    [c \in Range(files) |->
        IF month \in DOMAIN sm[c].out THEN sm[c].out[month] ELSE NaN]

\* for month in sorted(months): rows.append(row)
RepoRows(r, files, sm) ==
    LET ms == Sorted(UnionMonths(sm))
    IN  [i \in 1..Len(ms) |-> OpsRow(r, files, sm, ms[i])]

\* for org, repo, repo_dir in repo_iter(metrics_dir): ...
RECURSIVE CollectRows(_, _, _, _)
CollectRows(dir, files, i, rows) ==
    IF i > Len(dir) THEN [exc |-> "none", rows |-> rows]
    ELSE LET sm == SeriesMap(dir[i], files)
             e == FirstExc(sm, files, 1)
         IN  IF e # "none" THEN [exc |-> e, rows |-> << >>]
             ELSE CollectRows(dir, files, i + 1,
                              rows \o RepoRows(dir[i], files, sm))

BuildLong(dir, files) ==
    LET got == CollectRows(dir, files, 1, << >>)
    IN  IF got.exc # "none" THEN Raise(got.exc)
        ELSE SortValues(DataFrame(got.rows), <<"repo_full", "month">>)

build_openrank_long(dir) == BuildLong(dir, OpenrankFiles)

build_ops_long(dir, kind) == BuildLong(dir, FilesOf(kind))

(***************************************************************************)
(* Specification of the Long-Table Builder.                                *)
(***************************************************************************)
DocA == FlatShape(M1, 1)
DocB == EventShape(M2, 2)
DocAB == JDict(<<KV(M1, StatMean(0)), KV(M2 \o <<"-", "3", "0">>, JNum(2))>>)
DocJunk == JDict(<<KV(YearOnly, JNum(1))>>)
DocBig == JDict(<<KV(M1, JBig)>>)

AllFiles == Range(OpenrankFiles) \cup Range(IssueFiles) \cup Range(PrFiles)

\* The documents each file of the first repository may hold.
Repo1Files ==
    [openrank : {None, DocAB, DocBig},
     issues_new : {None, DocA, DocB},
     issues_closed : {None, DocA},
     issue_response_time : {DocJunk, DocB},
     issue_resolution_duration : {None, DocAB},
     change_requests : {None, DocA},
     change_request_response_time : {None, DocB},
     change_request_resolution_duration : {None, DocJunk}]

Repo1Choices ==
    {[org |-> <<"b">>, repo |-> <<"x">>, files |-> f] : f \in Repo1Files}

\* The second repository holds the same document in every file.
Repo2Choices ==
    {[org |-> <<"a">>, repo |-> <<"y">>, files |-> [c \in AllFiles |-> d]] :
        d \in {None, DocA, DocB}}

\* The directories of no, one or two repositories, in either listing order.
MetricsDirs(firsts, seconds) ==
    {<< >>} \cup {<<r>> : r \in firsts \cup seconds}
    \cup {<<r, q>> : r \in firsts, q \in seconds}
    \cup {<<q, r>> : r \in firsts, q \in seconds}

InitLong ==
    /\ pc = "start"
    /\ metrics_dir \in MetricsDirs(Repo1Choices, Repo2Choices)
    /\ openrank_long = NotBuilt /\ issue_ops = NotBuilt /\ pr_ops = NotBuilt
    /\ obj = Idle /\ series = Idle /\ snap = Idle /\ health_end = Idle
    /\ alerts_end = Idle /\ col = Idle /\ ranked = Idle

BuildOpenrankLong ==
    /\ openrank_long = NotBuilt
    /\ openrank_long' = build_openrank_long(metrics_dir)
    /\ UNCHANGED <<pc, metrics_dir, issue_ops, pr_ops, ExtractVars, ScoreVars,
                   RankVars>>

BuildIssueOps ==
    /\ issue_ops = NotBuilt
    /\ issue_ops' = build_ops_long(metrics_dir, "issue")
    /\ UNCHANGED <<pc, metrics_dir, openrank_long, pr_ops, ExtractVars,
                   ScoreVars, RankVars>>

BuildPrOps ==
    /\ pr_ops = NotBuilt
    /\ pr_ops' = build_ops_long(metrics_dir, "pr")
    /\ UNCHANGED <<pc, metrics_dir, openrank_long, issue_ops, ExtractVars,
                   ScoreVars, RankVars>>

NextLong == BuildOpenrankLong \/ BuildIssueOps \/ BuildPrOps

SpecLong == InitLong /\ [][NextLong]_vars

(***************************************************************************)
(* Claims about the Long-Table Builder (checked under SpecLong).           *)
(***************************************************************************)
\* The series of column c of repository r, and the months r's columns cover.
ColumnSeries(r, c) == extract_month_series(r.files[c]).out
Covered(r, files) == {m \in {M1, M2} : \E c \in Range(files) :
                                            m \in DOMAIN ColumnSeries(r, c)}

RowsAt(t, r, m) ==
    {j \in 1..Len(t.rows) :
        t.rows[j].repo_full = RepoFull(r) /\ t.rows[j].month = m}

RowsAreTheUnion(t, files) ==
    t.exc = "none" =>
        /\ \A j \in 1..Len(t.rows) :
               \E i \in 1..Len(metrics_dir) :
                   /\ t.rows[j].repo_full = RepoFull(metrics_dir[i])
                   /\ t.rows[j].month \in Covered(metrics_dir[i], files)
        /\ \A i \in 1..Len(metrics_dir) :
               \A m \in Covered(metrics_dir[i], files) :
                   /\ Cardinality(RowsAt(t, metrics_dir[i], m)) = 1
                   /\ \A j \in RowsAt(t, metrics_dir[i], m) :
                          \A c \in Range(files) :
                              t.rows[j][c] =
                                  IF m \in DOMAIN ColumnSeries(metrics_dir[i], c)
                                  THEN ColumnSeries(metrics_dir[i], c)[m]
                                  ELSE NaN

\* C3: for every repository and metric group, build_ops_long emits exactly
\* one row for (repository, month) iff the month is in the union of the month
\* keys of the repository's column series; each column holds its series'
\* value for the month, and NaN where the series lacks the month.
C3_RowsAreTheUnion ==
    /\ RowsAreTheUnion(issue_ops, IssueFiles)
    /\ RowsAreTheUnion(pr_ops, PrFiles)

\* C3's case: a row of a month that only some of the columns cover.
C3_Witness ==
    /\ issue_ops.exc = "none"
    /\ \E j \in 1..Len(issue_ops.rows) :
           /\ issue_ops.rows[j].issues_new.nan
           /\ ~issue_ops.rows[j].issue_response_time.nan

\* No row of table t belongs to a repository whose series are all empty.
NoRowsWithoutMonths(t, files) ==
    \A i \in 1..Len(metrics_dir) :
        Covered(metrics_dir[i], files) = {} =>
            \A j \in 1..Len(t.rows) :
                t.rows[j].repo_full # RepoFull(metrics_dir[i])

\* C4: build_openrank_long and build_ops_long never raise, whatever the
\* repositories and their documents; they return a table, to which a
\* repository whose series are all empty contributes no row, and which is
\* empty when no repository yields a month.
C4_BuildersNeverRaise ==
    /\ \A t \in {openrank_long, issue_ops, pr_ops} :
           t.exc \in {"pending", "none"}
    /\ NoRowsWithoutMonths(openrank_long, OpenrankFiles)
    /\ NoRowsWithoutMonths(issue_ops, IssueFiles)
    /\ NoRowsWithoutMonths(pr_ops, PrFiles)

(***************************************************************************)
(* pandas on the long tables: row selection, column selection, rename,     *)
(* float arithmetic with NaN, and merge(on="repo_full", how="left").       *)
(***************************************************************************)
\* a - b on floats: NaN if either is NaN
Sub(a, b) == IF a.nan \/ b.nan THEN NaN ELSE F(a.v - b.v)

\* -a
Neg(a) == IF a.nan THEN NaN ELSE F(-a.v)

\* df[df["month"] == month]
AtMonth(rows, month) == SelectSeq(rows, LAMBDA r : r.month = month)

\* df[cols]
Project(rows, cols) ==
    [i \in 1..Len(rows) |-> [c \in cols |-> rows[i][c]]]

\* How many rows of right match the key of row l.
Matches(l, right) == SelectSeq(right, LAMBDA r : r.repo_full = l.repo_full)

\* Mutant: how="inner", a left row without a match is dropped
RECURSIVE LeftMerge_Inner(_, _, _)
LeftMerge_Inner(left, right, rcols) ==
    IF left = << >> THEN << >>
    ELSE LET l == Head(left)
             ms == Matches(l, right)
         IN  [i \in 1..Len(ms) |-> l @@ [c \in rcols |-> ms[i][c]]]
             \o LeftMerge_Inner(Tail(left), right, rcols)

\* left.merge(right, on="repo_full", how="left"): one row per matching right
\* row, and one with NaN in right's columns for a left row that has no match
RECURSIVE LeftMerge(_, _, _)
LeftMerge(left, right, rcols) ==
    IF left = << >> THEN << >>
    ELSE LET l == Head(left)
             ms == Matches(l, right)
             joined == IF ms = << >> THEN <<l @@ [c \in rcols |-> NaN]>>
                       ELSE [i \in 1..Len(ms) |->
                                l @@ [c \in rcols |-> ms[i][c]]]
         IN  joined \o LeftMerge(Tail(left), right, rcols)

(***************************************************************************)
(* build_end_snapshot                                                      *)
(***************************************************************************)
\* openrank_long[month == m][["repo_full", "openrank"]].rename(openrank: name)
OpenrankAt(orl, m, name) ==
    LET sel == AtMonth(orl.rows, m)
    IN  [i \in 1..Len(sel) |->
            [c \in {"repo_full", name} |->
                IF c = name THEN sel[i].openrank ELSE sel[i].repo_full]]

IssueEndCols == {"issue_response_time", "issue_resolution_duration",
                 "backlog_end"}
PrEndCols == {"change_requests", "change_request_response_time",
              "change_request_resolution_duration"}

\* iss_end: the end-month issue rows with backlog_end = new - closed
IssEnd(iss, m) ==
    LET sel == AtMonth(iss.rows, m)
    IN  [i \in 1..Len(sel) |->
            [c \in {"repo_full"} \cup IssueEndCols |->
                IF c = "backlog_end"
                THEN Sub(sel[i].issues_new, sel[i].issues_closed)
                ELSE sel[i][c]]]

\* pr_end: the end-month PR rows
PrEnd(pr, m) == Project(AtMonth(pr.rows, m), {"repo_full"} \cup PrEndCols)

\* snap["openrank_delta"] = snap["openrank_end"] - snap["openrank_start"]
WithDelta(rows) ==
    [i \in 1..Len(rows) |->
        rows[i] @@ [c \in {"openrank_delta"} |->
                       Sub(rows[i].openrank_end, rows[i].openrank_start)]]

build_end_snapshot(orl, iss, pr, end_m, start_m) ==
    LET end_or == OpenrankAt(orl, end_m, "openrank_end")
        st_or == OpenrankAt(orl, start_m, "openrank_start")
        s1 == WithDelta(LeftMerge(end_or, st_or, {"openrank_start"}))
        s2 == LeftMerge(s1, IssEnd(iss, end_m), IssueEndCols)
    IN  LeftMerge(s2, PrEnd(pr, end_m), PrEndCols)

(***************************************************************************)
(* Specification of the Snapshot Assembler.  The long tables are those the *)
(* builders write: sorted, one row per (repo_full, month).                 *)
(***************************************************************************)
end_month == M2
start_month == M1

RepoA == [org |-> <<"a">>, repo |-> <<"y">>]
RepoB == [org |-> <<"b">>, repo |-> <<"x">>]
Repos == {RepoA, RepoB}

IdColNames == {"repo_full", "org", "repo", "month"}

\* The row of repository r and month m with metric columns vals, or no row.
Slot(r, m, valss) == {<< >>} \cup {<<IdCols(r, m) @@ vals>> : vals \in valss}

\* The tables with rows, in sorted order, for the start and end month of
\* both repositories; startVals and endVals are the metric columns to choose
\* from.  read_csv gives the table its columns even when it has no rows.
Tables(metrics, startVals, endVals) ==
    {[exc |-> "none", columns |-> IdColNames \cup metrics,
      rows |-> a1 \o a2 \o b1 \o b2] :
        a1 \in Slot(RepoA, M1, startVals), a2 \in Slot(RepoA, M2, endVals),
        b1 \in Slot(RepoB, M1, startVals), b2 \in Slot(RepoB, M2, endVals)}

OpenrankTables ==
    Tables({"openrank"}, {[openrank |-> F(1)]},
           {[openrank |-> F(x)] : x \in 1..MaxNum})

IssueRowX ==
    [issues_new |-> F(3), issues_closed |-> F(1),
     issue_response_time |-> F(5), issue_resolution_duration |-> F(2)]
IssueRowY ==
    [issues_new |-> NaN, issues_closed |-> F(1),
     issue_response_time |-> NaN, issue_resolution_duration |-> F(4)]

IssueTables == Tables(Range(IssueFiles), {IssueRowX}, {IssueRowX, IssueRowY})

PrRowX ==
    [change_requests |-> F(4), change_request_response_time |-> F(1),
     change_request_resolution_duration |-> NaN]

PrTables == Tables(Range(PrFiles), {PrRowX}, {PrRowX})

InitSnap ==
    /\ pc = "start"
    /\ openrank_long \in OpenrankTables
    /\ issue_ops \in IssueTables
    /\ pr_ops \in PrTables
    /\ snap = << >>
    /\ metrics_dir = Idle /\ obj = Idle /\ series = Idle /\ health_end = Idle
    /\ alerts_end = Idle /\ col = Idle /\ ranked = Idle

BuildEndSnapshot ==
    /\ pc = "start"
    /\ snap' = build_end_snapshot(openrank_long, issue_ops, pr_ops,
                                  end_month, start_month)
    /\ pc' = "snapshot"
    /\ UNCHANGED <<LongVars, ExtractVars, health_end, alerts_end, RankVars>>

NextSnap == BuildEndSnapshot

SpecSnap == InitSnap /\ [][NextSnap]_vars

(***************************************************************************)
(* Claims about the Snapshot Assembler (checked under SpecSnap).           *)
(***************************************************************************)
HasRowAt(t, r, m) ==
    \E j \in 1..Len(t.rows) :
        t.rows[j].repo_full = RepoFull(r) /\ t.rows[j].month = m

SnapRowsOf(r) == {j \in 1..Len(snap) : snap[j].repo_full = RepoFull(r)}

\* C5: with at most one row per (repo_full, month) in the long tables, the
\* snapshot has exactly one row for each repository with an openrank row at
\* end_month and none for any other; a repository without an issue (PR) row
\* at end_month has NaN in every column of that group.
C5_OneRowPerAnchor ==
    pc = "snapshot" =>
        /\ \A j \in 1..Len(snap) :
               \E r \in Repos : snap[j].repo_full = RepoFull(r)
        /\ \A r \in Repos :
               /\ Cardinality(SnapRowsOf(r)) =
                      IF HasRowAt(openrank_long, r, end_month) THEN 1 ELSE 0
               /\ \A j \in SnapRowsOf(r) :
                      /\ ~HasRowAt(issue_ops, r, end_month) =>
                             \A c \in IssueEndCols : snap[j][c].nan
                      /\ ~HasRowAt(pr_ops, r, end_month) =>
                             \A c \in PrEndCols : snap[j][c].nan

\* C5's case: an anchor row without an issue row at end_month but with a PR
\* row, beside an anchor row with both.
C5_Witness ==
    /\ pc = "snapshot"
    /\ Len(snap) = 2
    /\ ~HasRowAt(issue_ops, RepoA, end_month)
    /\ HasRowAt(issue_ops, RepoA, start_month)
    /\ HasRowAt(pr_ops, RepoA, end_month)
    /\ HasRowAt(issue_ops, RepoB, end_month)
    /\ \E j \in SnapRowsOf(RepoA) : ~snap[j].change_requests.nan

(***************************************************************************)
(* percentile_rank.  A rank is the exact fraction num / den.               *)
(***************************************************************************)
NoRank == [nan |-> TRUE, num |-> 0, den |-> 1]

NonNull(s) == {j \in 1..Len(s) : ~s[j].nan}
Below(s, i) == {j \in NonNull(s) : s[j].v < s[i].v}
Tied(s, i) == {j \in NonNull(s) : s[j].v = s[i].v}

\* Mutant: rank(pct=True, method="min"), a tie group gets its lowest rank
RankPct_Min(s) ==
    [i \in 1..Len(s) |->
        IF s[i].nan THEN NoRank
        ELSE [nan |-> FALSE,
              num |-> 2 * Cardinality(Below(s, i)) + 2,
              den |-> 2 * Cardinality(NonNull(s))]]

\* Series.rank(pct=True): NaN stays NaN; a value's rank is the average of the
\* positions 1..N its tie group takes in ascending order, over the number N
\* of non-null values: (below + (tied + 1) / 2) / N.
RankPct(s) ==
    [i \in 1..Len(s) |->
        IF s[i].nan THEN NoRank
        ELSE [nan |-> FALSE,
              num |-> 2 * Cardinality(Below(s, i)) + Cardinality(Tied(s, i)) + 1,
              den |-> 2 * Cardinality(NonNull(s))]]

\* Mutant: higher_is_better is ignored
percentile_rank_NoNegate(s, higher_is_better) == RankPct(s)

percentile_rank(s, higher_is_better) ==
    RankPct(IF higher_is_better THEN s
            ELSE [i \in 1..Len(s) |-> Neg(s[i])])

(***************************************************************************)
(* Specification of the Percentile Normalizer.                             *)
(***************************************************************************)
Floats == {NaN} \cup {F(x) : x \in 0..MaxNum}

InitRank ==
    /\ pc = "start"
    /\ col \in SeqsUpTo(Floats, MaxRows)
    /\ ranked = [done |-> {}, hi |-> << >>, lo |-> << >>]
    /\ metrics_dir = Idle /\ obj = Idle /\ series = Idle
    /\ openrank_long = Idle /\ issue_ops = Idle /\ pr_ops = Idle
    /\ snap = Idle /\ health_end = Idle /\ alerts_end = Idle

PercentileRank(higher_is_better) ==
    /\ higher_is_better \notin ranked.done
    /\ ranked' = [done |-> ranked.done \cup {higher_is_better},
                  hi |-> IF higher_is_better
                         THEN percentile_rank(col, TRUE) ELSE ranked.hi,
                  lo |-> IF higher_is_better
                         THEN ranked.lo ELSE percentile_rank(col, FALSE)]
    /\ UNCHANGED <<pc, col, LongVars, ExtractVars, ScoreVars>>

NextRank == \E higher_is_better \in BOOLEAN : PercentileRank(higher_is_better)

SpecRank == InitRank /\ [][NextRank]_vars

(***************************************************************************)
(* Claims about the Percentile Normalizer (checked under SpecRank).        *)
(***************************************************************************)
NoNulls == \A i \in 1..Len(col) : ~col[i].nan
IsMax(i) == \A j \in 1..Len(col) : col[j].v <= col[i].v
IsMin(i) == \A j \in 1..Len(col) : col[j].v >= col[i].v
N == Cardinality(NonNull(col))

\* C6 as stated: for a column with no nulls and N >= 1 values, the maximum
\* maps to rank 1.0 and the minimum to rank 1/N.
C6_MaxIsOneMinIsOneOverN ==
    (TRUE \in ranked.done /\ NoNulls /\ Len(col) >= 1) =>
        \A i \in 1..Len(col) :
            /\ IsMax(i) => ranked.hi[i].num = ranked.hi[i].den
            /\ IsMin(i) => ranked.hi[i].num * N = ranked.hi[i].den

\* C6 as amended: for a column with no nulls and N >= 1 values, the maximum
\* maps to (2N - k + 1) / 2N where k values are tied at the maximum, which is
\* 1.0 exactly when the maximum is unique, and the minimum maps to
\* (j + 1) / 2N where j values are tied at the minimum, which is 1/N exactly
\* when the minimum is unique.
C6_MaxMinRankByTies ==
    (TRUE \in ranked.done /\ NoNulls /\ Len(col) >= 1) =>
        \A i \in 1..Len(col) :
            LET ties == Cardinality({j \in 1..Len(col) : col[j] = col[i]})
            IN  /\ ranked.hi[i].den = 2 * N
                /\ IsMax(i) => ranked.hi[i].num = 2 * N - ties + 1
                /\ IsMin(i) => ranked.hi[i].num = ties + 1
                /\ IsMax(i) =>
                       (ranked.hi[i].num = ranked.hi[i].den <=> ties = 1)
                /\ IsMin(i) =>
                       (ranked.hi[i].num * N = ranked.hi[i].den <=> ties = 1)

\* C6's case: a ranked column without nulls whose maximum is tied and whose
\* minimum is unique.
C6_Witness ==
    /\ TRUE \in ranked.done
    /\ NoNulls
    /\ Len(col) >= 3
    /\ \E i, j, k \in 1..Len(col) :
           i # j /\ col[i] = col[j] /\ IsMax(i) /\ IsMin(k) /\ ~IsMax(k)

BothRanked == ranked.done = BOOLEAN

\* a ranks above b under one flag and below it under the other
OrderReversed ==
    \A a, b \in NonNull(col) :
        ranked.hi[a].num > ranked.hi[b].num <=>
            ranked.lo[a].num < ranked.lo[b].num

RankValues(r) == {r[i].num : i \in NonNull(col)}

\* C7 as stated: higher_is_better = false reverses the rank order of the
\* non-null entries and leaves the set of rank values the same.
C7_ReversedSameRankSet ==
    BothRanked =>
        /\ OrderReversed
        /\ \A i \in NonNull(col) : ranked.hi[i].den = ranked.lo[i].den
        /\ RankValues(ranked.hi) = RankValues(ranked.lo)

\* C7 as amended: higher_is_better = false reverses the rank order of the
\* non-null entries and turns each rank r into (N + 1) / N - r; the set of
\* rank values is the same in both when no two non-null values are tied.
C7_ReversedMirroredRanks ==
    BothRanked =>
        /\ OrderReversed
        /\ \A i \in NonNull(col) :
               /\ ranked.hi[i].den = 2 * N /\ ranked.lo[i].den = 2 * N
               /\ ranked.lo[i].num = 2 * N + 2 - ranked.hi[i].num
        /\ (\A i, j \in NonNull(col) : col[i] = col[j] => i = j) =>
               RankValues(ranked.hi) = RankValues(ranked.lo)
        /\ \A i \in 1..Len(col) :
               col[i].nan => ranked.hi[i].nan /\ ranked.lo[i].nan

\* C7's case: both directions ranked over a column with a null, a tie and a
\* strictly larger value.
C7_Witness ==
    /\ BothRanked
    /\ \E i, j, k, l \in 1..Len(col) :
           /\ col[l].nan /\ ~col[i].nan /\ ~col[j].nan /\ ~col[k].nan
           /\ i # j /\ col[i] = col[j] /\ col[k].v > col[i].v
    /\ RankValues(ranked.hi) # RankValues(ranked.lo)

(***************************************************************************)
(* compute_health_score and health_level.                                  *)
(* health_score is kept in hundredths of a point: F(8333) is 83.33.        *)
(***************************************************************************)
\* The weight table, in hundredths.
w == [openrank_end |-> 35, openrank_delta |-> 20, issue_response_time |-> 15,
      backlog_end |-> 10, issue_resolution_duration |-> 10,
      change_request_response_time |-> 5,
      change_request_resolution_duration |-> 5]

WeightedCols == <<"openrank_end", "openrank_delta", "issue_response_time",
                  "backlog_end", "issue_resolution_duration",
                  "change_request_response_time",
                  "change_request_resolution_duration">>

\* The normalized column of each weighted column.
NormCol ==
    [openrank_end |-> "n_openrank_end", openrank_delta |-> "n_openrank_delta",
     issue_response_time |-> "n_issue_response_time",
     backlog_end |-> "n_backlog_end",
     issue_resolution_duration |-> "n_issue_resolution_duration",
     change_request_response_time |-> "n_pr_response_time",
     change_request_resolution_duration |-> "n_pr_resolution_duration"]

\* percentile_rank(s[c], True) for the two openrank columns, False otherwise
HigherIsBetter(c) == c \in {"openrank_end", "openrank_delta"}

\* s[c]
Column(rows, c) == [i \in 1..Len(rows) |-> rows[i][c]]

RECURSIVE GCD(_, _)
GCD(a, b) == IF b = 0 THEN a ELSE GCD(b, a % b)
LCM(a, b) == (a * b) \div GCD(a, b)

\* A common denominator of the ranks r[c], c in cols.
RECURSIVE CommonDen(_, _)
CommonDen(r, cols) ==
    IF cols = << >> THEN 1 ELSE LCM(r[Head(cols)].den, CommonDen(r, Tail(cols)))

\* sum of w[c] * r[c] over cols, as a numerator over the denominator d
RECURSIVE WeightedSum(_, _, _)
WeightedSum(r, cols, d) ==
    IF cols = << >> THEN 0
    ELSE w[Head(cols)] * r[Head(cols)].num * (d \div r[Head(cols)].den)
         + WeightedSum(r, Tail(cols), d)

\* round(): a / d to the nearest integer, halves to the even one
RoundDiv(a, d) ==
    LET q == a \div d
        rem == a % d
    IN  IF 2 * rem < d THEN q
        ELSE IF 2 * rem > d THEN q + 1
        ELSE q + (q % 2)

\* Mutant: a null normalized column counts as 0 (fillna(0) before the sum)
Score_ZeroFill(r) ==
    LET z == [c \in DOMAIN r |->
                 IF r[c].nan THEN [nan |-> FALSE, num |-> 0, den |-> 1]
                 ELSE r[c]]
        d == CommonDen(z, WeightedCols)
    IN  F(RoundDiv(100 * WeightedSum(z, WeightedCols, d), d))

\* (w[..] * s["n_.."] + ...) * 100, rounded to 2 decimals, for one row whose
\* normalized columns are r: NaN if any of them is NaN
Score(r) ==
    IF \E c \in DOMAIN r : r[c].nan THEN NaN
    ELSE LET d == CommonDen(r, WeightedCols)
         IN  F(RoundDiv(100 * WeightedSum(r, WeightedCols, d), d))

GreenFrom == 70
YellowFrom == 45

\* Mutant: a null score is left without a level
health_level_NullUnclassified(score) ==
    IF score.nan THEN "none"
    ELSE IF score.v >= 70 * 100 THEN "green"
    ELSE IF score.v >= 45 * 100 THEN "yellow"
    ELSE "red"

\* health_level: "green" is the level written 绿, "yellow" 黄, "red" 红.
\* A comparison with NaN is false.
health_level(score) ==
    IF ~score.nan /\ score.v >= GreenFrom * 100 THEN "green"
    ELSE IF ~score.nan /\ score.v >= YellowFrom * 100 THEN "yellow"
    ELSE "red"

compute_health_score(sn) ==
    LET n == [c \in Range(WeightedCols) |->
                 percentile_rank(Column(sn, c), HigherIsBetter(c))]
    IN  [i \in 1..Len(sn) |->
            LET r == [c \in Range(WeightedCols) |-> n[c][i]]
                score == Score(r)
            IN  sn[i]
                @@ [c \in {NormCol[k] : k \in Range(WeightedCols)} |->
                       r[CHOOSE k \in Range(WeightedCols) : NormCol[k] = c]]
                @@ [c \in {"health_score"} |-> score]
                @@ [c \in {"health_level"} |-> health_level(score)]]

(***************************************************************************)
(* Specification of the Health Scorer: a snapshot of three repositories.   *)
(***************************************************************************)
ScoreVals(maxv) == {NaN} \cup {F(x) : x \in 0..maxv}

\* The values two columns take over the three rows are chosen freely.
FreeColumn(vals) == {<<a, b, c>> : a \in vals, b \in vals, c \in vals}

\* The other columns take one of the patterns listed for them.
Patterns ==
    [openrank_delta : {<<F(0), F(1), F(2)>>, <<F(1), NaN, F(1)>>},
     backlog_end : {<<F(2), F(2), F(0)>>, <<NaN, F(1), F(3)>>},
     issue_resolution_duration : {<<F(1), F(2), F(2)>>},
     change_request_response_time : {<<F(3), F(1), F(2)>>},
     change_request_resolution_duration : {<<F(1), F(1), F(1)>>,
                                           <<NaN, NaN, F(5)>>}]

SnapRepos == <<<<"a", "/", "y">>, <<"b", "/", "x">>, <<"c", "/", "z">>>>

Snapshots(vals) ==
    {[i \in 1..Len(SnapRepos) |->
         [repo_full |-> SnapRepos[i],
          openrank_end |-> oe[i],
          openrank_start |-> F(0),
          openrank_delta |-> p.openrank_delta[i],
          issue_response_time |-> irt[i],
          issue_resolution_duration |-> p.issue_resolution_duration[i],
          backlog_end |-> p.backlog_end[i],
          change_requests |-> NaN,
          change_request_response_time |-> p.change_request_response_time[i],
          change_request_resolution_duration |->
              p.change_request_resolution_duration[i]]] :
        oe \in FreeColumn(vals), irt \in FreeColumn(vals), p \in Patterns}

InitHealth ==
    /\ pc = "snapshot"
    /\ snap \in Snapshots(ScoreVals(MaxScoreVal))
    /\ health_end = << >>
    /\ metrics_dir = Idle /\ obj = Idle /\ series = Idle
    /\ openrank_long = Idle /\ issue_ops = Idle /\ pr_ops = Idle
    /\ alerts_end = Idle /\ col = Idle /\ ranked = Idle

ComputeHealthScore ==
    /\ pc = "snapshot"
    /\ health_end' = compute_health_score(snap)
    /\ pc' = "scored"
    /\ UNCHANGED <<snap, alerts_end, LongVars, ExtractVars, RankVars>>

NextHealth == ComputeHealthScore

SpecHealth == InitHealth /\ [][NextHealth]_vars

(***************************************************************************)
(* Claims about the Health Scorer (checked under SpecHealth).              *)
(***************************************************************************)
\* The normalized columns of row i of health_end, by weighted column.
NormOf(i) == [c \in Range(WeightedCols) |-> health_end[i][NormCol[c]]]

Abs(x) == IF x < 0 THEN -x ELSE x

\* C8: health_score is null iff one of the seven weighted columns is null on
\* the row; otherwise it is 100 times the weighted sum of the seven
\* normalized columns (weights 0.35, 0.20, 0.15, 0.10, 0.10, 0.05, 0.05,
\* summing to 1.0) rounded to 2 decimals, and lies in [0, 100].
C8_ScoreNullOrWeightedSum ==
    pc = "scored" =>
        /\ Len(health_end) = Len(snap)
        /\ WeightedSum([c \in Range(WeightedCols) |->
                           [nan |-> FALSE, num |-> 1, den |-> 1]],
                       WeightedCols, 1) = 100
        /\ \A i \in 1..Len(snap) :
               /\ health_end[i].health_score.nan <=>
                      \E c \in Range(WeightedCols) : snap[i][c].nan
               /\ ~health_end[i].health_score.nan =>
                      LET d == CommonDen(NormOf(i), WeightedCols)
                          exact == 100 * WeightedSum(NormOf(i), WeightedCols, d)
                      IN  /\ health_end[i].health_score.v >= 0
                          /\ health_end[i].health_score.v <= 100 * 100
                          /\ 2 * Abs(d * health_end[i].health_score.v - exact)
                                 <= d

\* C8's case: one row's score is null, another's is a weighted sum that the
\* rounding to 2 decimals changes.
C8_Witness ==
    /\ pc = "scored"
    /\ \E i, j \in 1..Len(health_end) :
           /\ health_end[i].health_score.nan
           /\ ~health_end[j].health_score.nan
           /\ LET d == CommonDen(NormOf(j), WeightedCols)
              IN  (100 * WeightedSum(NormOf(j), WeightedCols, d)) % d # 0

\* The three levels health_level returns.
Levels == {"green", "yellow", "red"}

\* C11: compute_health_score gives every snapshot row exactly one of the
\* three levels, and a row whose health_score is null gets the critical
\* level 红 ("red"): it is never left without a level.
C11_NullScoreIsRed ==
    pc = "scored" =>
        /\ Len(health_end) = Len(snap)
        /\ \A i \in 1..Len(health_end) :
               /\ health_end[i].health_level \in Levels
               /\ health_end[i].health_score.nan =>
                      health_end[i].health_level = "red"

\* C11's case: a row with a null score has been given the level "red" next
\* to a scored row that has been given another level.
C11_Witness ==
    /\ pc = "scored"
    /\ \E i, j \in 1..Len(health_end) :
           /\ health_end[i].health_score.nan
           /\ health_end[i].health_level = "red"
           /\ ~health_end[j].health_score.nan
           /\ health_end[j].health_level # "red"

(***************************************************************************)
(* build_alerts.  Severity "red" is the one written 红, "yellow" 黄; the    *)
(* alert types are named slow_red (Issue首响过慢), slow_yellow              *)
(* (Issue首响偏慢), backlog_red (Issue积压严重), backlog_yellow             *)
(* (Issue积压上升).  The reason column is a fixed text per alert type.      *)
(***************************************************************************)
SlowRed == 14
SlowYellow == 7
BacklogRed == 50
BacklogYellow == 10

Alert(r, m, type, severity, metric, v, threshold) ==
    [repo_full |-> r.repo_full, month |-> m, alert_type |-> type,
     severity |-> severity, metric |-> metric, value |-> v,
     threshold |-> threshold, reason |-> type]

\* Mutant: the second test is an if, not an elif
SlowAlerts_NoElif(r, m) ==
    LET v == r.issue_response_time
    IN  (IF v.v > SlowRed
         THEN <<Alert(r, m, "slow_red", "red", "issue_response_time", v,
                      SlowRed)>>
         ELSE << >>)
        \o (IF v.v > SlowYellow
            THEN <<Alert(r, m, "slow_yellow", "yellow", "issue_response_time",
                         v, SlowYellow)>>
            ELSE << >>)

\* rule 1 on a row whose issue_response_time is not NaN
SlowAlerts(r, m) ==
    LET v == r.issue_response_time
    IN  IF v.v > SlowRed
        THEN <<Alert(r, m, "slow_red", "red", "issue_response_time", v,
                     SlowRed)>>
        ELSE IF v.v > SlowYellow
        THEN <<Alert(r, m, "slow_yellow", "yellow", "issue_response_time", v,
                     SlowYellow)>>
        ELSE << >>

\* rule 2 on a row whose backlog_end is not NaN
BacklogAlerts(r, m) ==
    LET v == r.backlog_end
    IN  IF v.v > BacklogRed
        THEN <<Alert(r, m, "backlog_red", "red", "backlog_end", v,
                     BacklogRed)>>
        ELSE IF v.v > BacklogYellow
        THEN <<Alert(r, m, "backlog_yellow", "yellow", "backlog_end", v,
                     BacklogYellow)>>
        ELSE << >>

\* The concatenation of a sequence of sequences.
RECURSIVE Concat(_)
Concat(qs) == IF qs = << >> THEN << >> ELSE Head(qs) \o Concat(Tail(qs))

\* for _, r in iss.dropna(subset=["issue_response_time"]).iterrows(): ...
SlowLoop(rows, m) ==
    Concat([i \in 1..Len(rows) |->
               IF rows[i].issue_response_time.nan THEN << >>
               ELSE SlowAlerts(rows[i], m)])

\* for _, r in iss.dropna(subset=["backlog_end"]).iterrows(): ...
BacklogLoop(rows, m) ==
    Concat([i \in 1..Len(rows) |->
               IF rows[i].backlog_end.nan THEN << >>
               ELSE BacklogAlerts(rows[i], m)])

build_alerts(iss_long, orl, end_m) ==
    LET or_end == OpenrankAt(orl, end_m, "openrank_end")
        merged == LeftMerge(AtMonth(iss_long.rows, end_m), or_end,
                            {"openrank_end"})
        iss == [i \in 1..Len(merged) |->
                   merged[i] @@ [c \in {"backlog_end"} |->
                                    Sub(merged[i].issues_new,
                                        merged[i].issues_closed)]]
    IN  SlowLoop(iss, end_m) \o BacklogLoop(iss, end_m)

(***************************************************************************)
(* Specification of the Alert Rule Engine.                                 *)
(***************************************************************************)
Around(t) == {t - 1, t, t + 1}

EndIssueRows ==
    [issues_new : {NaN} \cup {F(x) : x \in Around(BacklogYellow)
                                         \cup Around(BacklogRed)},
     issues_closed : {NaN, F(0), F(BacklogYellow + SlowYellow)},
     issue_response_time : {NaN} \cup {F(x) : x \in Around(SlowYellow)
                                                  \cup Around(SlowRed)},
     issue_resolution_duration : {F(1)}]

\* A row that would fire both red rules.
LoudIssueRow ==
    [issues_new |-> F(BacklogRed + BacklogRed), issues_closed |-> F(0),
     issue_response_time |-> F(SlowRed + SlowRed),
     issue_resolution_duration |-> F(1)]

\* Repository a/y: any end-month row, and maybe a loud start-month row.
\* Repository b/x: a loud end-month row, a quiet one, or none.
AlertIssueTables ==
    {[exc |-> "none", columns |-> IdColNames \cup Range(IssueFiles),
      rows |-> a1 \o a2 \o b2] :
        a1 \in Slot(RepoA, M1, {LoudIssueRow}),
        a2 \in Slot(RepoA, M2, EndIssueRows),
        b2 \in Slot(RepoB, M2, {LoudIssueRow, IssueRowX})}

AlertOpenrankTables ==
    {[exc |-> "none", columns |-> IdColNames \cup {"openrank"},
      rows |-> a2 \o b1 \o b2] :
        a2 \in Slot(RepoA, M2, {[openrank |-> F(1)]}),
        b1 \in {<<IdCols(RepoB, M1) @@ [openrank |-> F(2)]>>},
        b2 \in {<<IdCols(RepoB, M2) @@ [openrank |-> F(2)]>>}}

InitAlerts ==
    /\ pc = "start"
    /\ issue_ops \in AlertIssueTables
    /\ openrank_long \in AlertOpenrankTables
    /\ alerts_end = << >>
    /\ metrics_dir = Idle /\ obj = Idle /\ series = Idle /\ pr_ops = Idle
    /\ snap = Idle /\ health_end = Idle /\ col = Idle /\ ranked = Idle

BuildAlerts ==
    /\ pc = "start"
    /\ alerts_end' = build_alerts(issue_ops, openrank_long, end_month)
    /\ pc' = "alerted"
    /\ UNCHANGED <<snap, health_end, LongVars, ExtractVars, RankVars>>

NextAlerts == BuildAlerts

SpecAlerts == InitAlerts /\ [][NextAlerts]_vars

(***************************************************************************)
(* Claims about the Alert Rule Engine (checked under SpecAlerts).          *)
(***************************************************************************)
AlertsOf(row, metric) ==
    {a \in 1..Len(alerts_end) :
        /\ alerts_end[a].repo_full = row.repo_full
        /\ alerts_end[a].metric = metric}

\* The alerts of a rule for a row are: none for a null value or one not above
\* yellow; one red alert with the red threshold above red; else one yellow
\* alert with the yellow threshold.
RuleHolds(row, metric, v, red, yellow) ==
    LET as == AlertsOf(row, metric)
    IN  IF v.nan \/ v.v <= yellow THEN as = {}
        ELSE /\ Cardinality(as) = 1
             /\ \A a \in as :
                    /\ alerts_end[a].value = v
                    /\ alerts_end[a].month = end_month
                    /\ IF v.v > red
                       THEN /\ alerts_end[a].severity = "red"
                            /\ alerts_end[a].threshold = red
                       ELSE /\ alerts_end[a].severity = "yellow"
                            /\ alerts_end[a].threshold = yellow

\* C9: for every issue row at end_month the slow-first-response rule appends
\* exactly one red alert (threshold 14) when issue_response_time > 14, one
\* yellow (threshold 7) when 7 < value <= 14, none when value <= 7 or null;
\* the backlog rule (issues_new - issues_closed) likewise with 50 and 10.
\* With one issue row per repository at end_month a repository appears at
\* most once per rule and at most twice in the alert table.
C9_AlertsPerRule ==
    pc = "alerted" =>
        /\ \A j \in 1..Len(issue_ops.rows) :
               LET row == issue_ops.rows[j]
               IN  row.month = end_month =>
                       /\ RuleHolds(row, "issue_response_time",
                                    row.issue_response_time, 14, 7)
                       /\ RuleHolds(row, "backlog_end",
                                    Sub(row.issues_new, row.issues_closed),
                                    50, 10)
        /\ \A a \in 1..Len(alerts_end) :
               /\ HasRowAt(issue_ops,
                           CHOOSE r \in Repos :
                               RepoFull(r) = alerts_end[a].repo_full,
                           end_month)
               /\ alerts_end[a].metric \in {"issue_response_time",
                                            "backlog_end"}
        /\ \A r \in Repos :
               Cardinality({a \in 1..Len(alerts_end) :
                               alerts_end[a].repo_full = RepoFull(r)}) <= 2

\* C9's case: one repository fires a red slow-response alert and a yellow
\* backlog alert, the other has a loud row only at the start month.
C9_Witness ==
    /\ pc = "alerted"
    /\ Len(alerts_end) = 2
    /\ \E a, b \in 1..Len(alerts_end) :
           /\ alerts_end[a].repo_full = RepoFull(RepoA)
           /\ alerts_end[b].repo_full = RepoFull(RepoA)
           /\ alerts_end[a].alert_type = "slow_red"
           /\ alerts_end[b].alert_type = "backlog_yellow"
    /\ HasRowAt(issue_ops, RepoA, start_month)
    /\ ~HasRowAt(issue_ops, RepoB, end_month)

=============================================================================
